---- MODULE Spec2Model ----
(***************************************************************************)
(* Model of the non-visual logic of DolphinQt's MemoryWidget               *)
(* (Source/Core/DolphinQt/Debugger/MemoryWidget.cpp): address resolution   *)
(* (GetTargetAddress), value validation and preview                        *)
(* (ValidateAndPreviewInputValue, GetInputData), and the handlers that use *)
(* them.                                                                   *)
(*                                                                         *)
(* Texts are sequences of one-character strings.  TLC's integers are 32    *)
(* bits wide, so 32-bit unsigned values and true (unbounded) sums are kept *)
(* as "wide" integers [hi, lo] standing for hi * 2^16 + lo, 0 <= lo < 2^16.*)
(***************************************************************************)
EXTENDS Integers, Sequences, FiniteSets, TLC

VARIABLES
  search_address,   \* m_search_address->text()
  search_offset,    \* m_search_offset->text()
  addr_bad,         \* m_search_address shown bold/red
  offset_bad,       \* m_search_offset shown bold/red
  view_address,     \* address the memory view is positioned at
  data_edit,        \* m_data_edit->text()
  combo_id,         \* m_input_combo->currentData()
  base_checked,     \* m_base_check->isChecked()
  base_enabled,     \* m_base_check->isEnabled()
  data_preview,     \* m_data_preview->text()
  data_bad,         \* m_data_edit shown bold/red
  result_label,     \* m_result_label->text()
  memory,           \* the bytes of the address space shown, by address
  core_running,     \* Core::IsRunning()
  search_call,      \* the accessors->Search call of the latest handler run
  writes,           \* the accessors->WriteU8 calls of the latest handler run
  message_box       \* the ModalMessageBox::critical text of the latest handler run

vars == <<search_address, search_offset, addr_bad, offset_bad, view_address,
          data_edit, combo_id, base_checked, base_enabled, data_preview, data_bad,
          result_label, memory, core_running, search_call, writes, message_box>>

addrVars == <<search_address, search_offset, addr_bad, offset_bad, view_address>>
codecVars == <<data_edit, combo_id, base_checked, base_enabled, data_preview, data_bad>>
findVars == <<result_label, memory, core_running>>
callVars == <<search_call, writes, message_box>>

----------------------------------------------------------------------------
(* Bounds of the model.                                                    *)

\* How far from each boundary value (0, 2^31, 2^32 - 1, ...) the sampled
\* addresses and offsets reach.
MaxDelta == 1

\* The number of mapped bytes at the bottom of the address space.
MemSize == 2

----------------------------------------------------------------------------
(* Wide integers.                                                          *)

W == 2^16

Norm(h, l) == [hi |-> h + (l \div W), lo |-> l % W]
WOf(n) == Norm(0, n)
WAdd(x, y) == Norm(x.hi + y.hi, x.lo + y.lo)
WNeg(x) == Norm(-x.hi, -x.lo)
WSub(x, y) == WAdd(x, WNeg(y))
WMul(x, k) == Norm(x.hi * k, x.lo * k)
WLe(x, y) == x.hi < y.hi \/ (x.hi = y.hi /\ x.lo <= y.lo)
WLt(x, y) == x.hi < y.hi \/ (x.hi = y.hi /\ x.lo < y.lo)
WZero == WOf(0)

\* std::numeric_limits<u32>::max(), <s32>::max(), <s32>::min()
U32Max == [hi |-> W - 1, lo |-> W - 1]
S32Max == [hi |-> (W \div 2) - 1, lo |-> W - 1]
S32Min == [hi |-> -(W \div 2), lo |-> 0]

\* Conversion to u32: reduction modulo 2^32.
ToU32(x) == [hi |-> x.hi % W, lo |-> x.lo]

----------------------------------------------------------------------------
(* Characters and number parsing (QString::toUInt/toInt/toShort/toUShort). *)

DigitOf ==
  ("0" :> 0) @@ ("1" :> 1) @@ ("2" :> 2) @@ ("3" :> 3) @@ ("4" :> 4) @@
  ("5" :> 5) @@ ("6" :> 6) @@ ("7" :> 7) @@ ("8" :> 8) @@ ("9" :> 9) @@
  ("A" :> 10) @@ ("B" :> 11) @@ ("C" :> 12) @@ ("D" :> 13) @@ ("E" :> 14) @@
  ("F" :> 15) @@
  ("a" :> 10) @@ ("b" :> 11) @@ ("c" :> 12) @@ ("d" :> 13) @@ ("e" :> 14) @@
  ("f" :> 15)

\* The value of a character as a digit; 36 when it is a digit in no base.
DigitVal(c) == IF c \in DOMAIN DigitOf THEN DigitOf[c] ELSE 36

Drop(s, n) == SubSeq(s, n + 1, Len(s))

\* The digits of s in the given base, most significant first.  Every type
\* converted to here is at most 32 bits wide, so a value that has passed 2^32
\* is out of range whatever follows: the accumulator stops growing there.
RECURSIVE ParseDigits(_, _, _)
ParseDigits(s, base, acc) ==
  IF s = <<>> THEN [ok |-> TRUE, val |-> acc]
  ELSE IF DigitVal(Head(s)) >= base THEN [ok |-> FALSE, val |-> WZero]
  ELSE ParseDigits(Tail(s), base,
                   IF acc.hi >= W THEN acc
                   ELSE WAdd(WMul(acc, base), WOf(DigitVal(Head(s)))))

HasHexPrefix(s) == Len(s) >= 2 /\ s[1] = "0" /\ s[2] \in {"x", "X"}

\* The magnitude after the sign: an optional 0x prefix when the base is 0 or
\* 16; base 0 means octal after a leading 0 and decimal otherwise; then at
\* least one digit, and nothing but digits to the end of the text.
ParseMagnitude(s, base) ==
  IF base \in {0, 16} /\ HasHexPrefix(s)
  THEN IF Len(s) = 2 THEN [ok |-> FALSE, val |-> WZero]
       ELSE ParseDigits(Drop(s, 2), 16, WZero)
  ELSE IF s = <<>> THEN [ok |-> FALSE, val |-> WZero]
  ELSE ParseDigits(s, IF base # 0 THEN base ELSE IF Head(s) = "0" THEN 8 ELSE 10,
                   WZero)

\* QString::toLongLong / toULongLong in the C locale, followed by the range
\* check of the narrower type [lo, hi].  An unsigned conversion accepts no
\* minus sign.  A failed conversion returns 0.
HasSign(s) == s # <<>> /\ Head(s) \in {"-", "+"}
IsNegative(s) == s # <<>> /\ Head(s) = "-"

\* The value v converted from a text, kept when it lies in [lo, hi].
Ranged(ok, v, lo, hi) ==
  IF ok /\ WLe(lo, v) /\ WLe(v, hi) THEN [ok |-> TRUE, val |-> v]
  ELSE [ok |-> FALSE, val |-> WZero]

Signed(m, neg, signed, lo, hi) ==
  Ranged(m.ok /\ (neg => signed), IF neg THEN WNeg(m.val) ELSE m.val, lo, hi)

ParseInteger(s, base, signed, lo, hi) ==
  Signed(ParseMagnitude(IF HasSign(s) THEN Tail(s) ELSE s, base),
         IsNegative(s), signed, lo, hi)

ToUInt(s, base) == ParseInteger(s, base, FALSE, WZero, U32Max)
ToInt(s, base) == ParseInteger(s, base, TRUE, S32Min, S32Max)
ToShort(s, base) == ParseInteger(s, base, TRUE, WOf(-32768), WOf(32767))
ToUShort(s, base) == ParseInteger(s, base, FALSE, WZero, WOf(65535))

----------------------------------------------------------------------------
(* Hexadecimal output.                                                     *)

UpperDigits == <<"0", "1", "2", "3", "4", "5", "6", "7",
                 "8", "9", "A", "B", "C", "D", "E", "F">>
LowerDigits == <<"0", "1", "2", "3", "4", "5", "6", "7",
                 "8", "9", "a", "b", "c", "d", "e", "f">>

\* The four hex digits of n, 0 <= n < 2^16.
Hex4(n, digits) ==
  << digits[(n \div 4096) + 1], digits[((n \div 256) % 16) + 1],
     digits[((n \div 16) % 16) + 1], digits[(n % 16) + 1] >>

\* The two hex digits of n, 0 <= n < 2^8.
Hex2(n, digits) == << digits[(n \div 16) + 1], digits[(n % 16) + 1] >>

\* The eight hex digits of a u32.
Hex8(u, digits) == Hex4(u.hi, digits) \o Hex4(u.lo, digits)

RECURSIVE StripZeros(_)
StripZeros(s) ==
  IF Len(s) > 1 /\ Head(s) = "0" THEN StripZeros(Tail(s)) ELSE s

----------------------------------------------------------------------------
(* GetTargetAddress.                                                       *)

\* NegOffset without the "+ 1" of its INT_MIN case.
NegOffsetNoPlusOne(offset) ==
  IF offset # S32Min THEN ToU32(WNeg(offset)) ELSE ToU32(S32Max)

\* neg_offset: the magnitude of a negative offset as a u32.
NegOffset(offset) ==
  IF offset # S32Min THEN ToU32(WNeg(offset)) ELSE ToU32(WAdd(S32Max, WOf(1)))

\* GoodAddress without the isEmpty() clause of line 803.
GoodAddressNoEmpty(text) == ToUInt(text, 16).ok

\* target.is_good_address after lines 802-803.
GoodAddress(text) == ToUInt(text, 16).ok \/ text = <<>>

\* target.is_good_offset after line 808.
OffsetParsed(text) == ToInt(text, 16).ok \/ text = <<>>

\* offset >= 0 || neg_offset <= addr
NoUnderflow(addr, offset) == WLe(WZero, offset) \/ WLe(NegOffset(offset), addr)

\* NoOverflow with > in place of >=.
NoOverflowStrict(addr, offset) ==
  WLe(offset, WZero) \/ WLt(addr, ToU32(WSub(U32Max, ToU32(offset))))

\* offset <= 0 || (max - u32(offset)) >= addr
NoOverflow(addr, offset) ==
  WLe(offset, WZero) \/ WLe(addr, ToU32(WSub(U32Max, ToU32(offset))))

\* Combine adding the magnitude of a negative offset instead of subtracting it.
CombineAddsMagnitude(addr, offset) ==
  IF WLt(offset, WZero) THEN ToU32(WAdd(addr, NegOffset(offset)))
  ELSE ToU32(WAdd(addr, ToU32(offset)))

\* addr - neg_offset, or addr + u32(offset), in u32 arithmetic.
Combine(addr, offset) ==
  IF WLt(offset, WZero) THEN ToU32(WSub(addr, NegOffset(offset)))
  ELSE ToU32(WAdd(addr, ToU32(offset)))

\* The target computed from the converted address and offset and the two
\* flags as they stand after line 808.
\* The offset flag left as the offset text alone makes it when the address
\* text is bad.
TargetOffsetAlone(addr, offset, good_address, offset_parsed) ==
  IF good_address /\ offset_parsed /\ NoUnderflow(addr, offset) /\ NoOverflow(addr, offset)
  THEN [address |-> Combine(addr, offset),
        is_good_address |-> TRUE, is_good_offset |-> TRUE]
  ELSE [address |-> WZero,
        is_good_address |-> good_address,
        is_good_offset |-> IF good_address
                           THEN offset_parsed /\ NoUnderflow(addr, offset)
                                              /\ NoOverflow(addr, offset)
                           ELSE offset_parsed]

Target(addr, offset, good_address, offset_parsed) ==
  IF good_address /\ offset_parsed /\ NoUnderflow(addr, offset) /\ NoOverflow(addr, offset)
  THEN [address |-> Combine(addr, offset),
        is_good_address |-> TRUE, is_good_offset |-> TRUE]
  ELSE [address |-> WZero,
        is_good_address |-> good_address,
        is_good_offset |-> offset_parsed /\ NoUnderflow(addr, offset)
                                        /\ NoOverflow(addr, offset)]

TargetAddress(address_text, offset_text) ==
  Target(ToUInt(address_text, 16).val, ToInt(offset_text, 16).val,
         GoodAddress(address_text), OffsetParsed(offset_text))

GetTargetAddress == TargetAddress(search_address, search_offset)

----------------------------------------------------------------------------
(* Bytes and text conversions (QString::toLatin1/toUtf8, QByteArray::toHex *)
(* and fromHex).                                                           *)

\* The code of each character the input texts are made of; "eacute" stands
\* for the one character U+00E9.
CharCode ==
  ("0" :> 48) @@ ("1" :> 49) @@ ("2" :> 50) @@ ("3" :> 51) @@ ("4" :> 52) @@
  ("5" :> 53) @@ ("6" :> 54) @@ ("7" :> 55) @@ ("8" :> 56) @@ ("9" :> 57) @@
  ("A" :> 65) @@ ("B" :> 66) @@ ("C" :> 67) @@ ("D" :> 68) @@ ("E" :> 69) @@
  ("F" :> 70) @@ ("G" :> 71) @@ ("Z" :> 90) @@
  ("a" :> 97) @@ ("b" :> 98) @@ ("c" :> 99) @@ ("d" :> 100) @@ ("e" :> 101) @@
  ("f" :> 102) @@ ("x" :> 120) @@
  (" " :> 32) @@ ("+" :> 43) @@ ("-" :> 45) @@ ("." :> 46) @@
  ("eacute" :> 233)

\* QString::toLatin1: one byte per character.
TextBytes(s) == [i \in 1..Len(s) |-> CharCode[s[i]]]

\* QString::toUtf8: one byte for a character below 128, two for the others.
Utf8Of(c) ==
  IF CharCode[c] < 128 THEN << CharCode[c] >>
  ELSE << 192 + (CharCode[c] \div 64), 128 + (CharCode[c] % 64) >>

RECURSIVE Utf8Bytes(_)
Utf8Bytes(s) == IF s = <<>> THEN <<>> ELSE Utf8Of(Head(s)) \o Utf8Bytes(Tail(s))

\* QByteArray::toHex: two lower-case digits per byte.
RECURSIVE ToHex(_)
ToHex(bytes) ==
  IF bytes = <<>> THEN <<>>
  ELSE Hex2(Head(bytes), LowerDigits) \o ToHex(Tail(bytes))

IsHexDigit(c) == DigitVal(c) < 16

\* Pairs of digits, taken from the end; a digit left over at the front is a
\* byte of its own.
RECURSIVE PairsFromEnd(_)
PairsFromEnd(d) ==
  IF d = <<>> THEN <<>>
  ELSE IF Len(d) = 1 THEN << DigitVal(d[1]) >>
  ELSE Append(PairsFromEnd(SubSeq(d, 1, Len(d) - 2)),
              DigitVal(d[Len(d) - 1]) * 16 + DigitVal(d[Len(d)]))

\* QByteArray::fromHex: characters that are no hex digits are skipped.
FromHex(s) == PairsFromEnd(SelectSeq(s, IsHexDigit))

----------------------------------------------------------------------------
(* QString::toFloat / toDouble and Common::BitCast, for texts that denote  *)
(* whole numbers: a sign, decimal digits and an exponent.  The input texts *)
(* of the model hold no decimal point and no negative exponent.            *)

\* What a case of the switch on combo_id leaves in good and hex_string.
Bad == [good |-> FALSE, hex |-> <<>>]
Good(hex) == [good |-> TRUE, hex |-> hex]

IsDecDigit(c) == DigitVal(c) < 10

AllDecDigits(s) == s # <<>> /\ \A i \in 1..Len(s) : IsDecDigit(s[i])

\* The index of the first e or E of s, 0 when it has none.
RECURSIVE ExponentMark(_, _)
ExponentMark(s, i) ==
  IF i > Len(s) THEN 0
  ELSE IF s[i] \in {"e", "E"} THEN i
  ELSE ExponentMark(s, i + 1)

\* A text split into sign, mantissa digits and exponent digits; ok when it
\* is a decimal floating-point numeral.
SplitAt(neg, body, mark) ==
  [neg |-> neg,
   mant |-> IF mark = 0 THEN body ELSE SubSeq(body, 1, mark - 1),
   expo |-> IF mark = 0 THEN <<"0">>
            ELSE IF mark < Len(body) /\ body[mark + 1] = "+" THEN Drop(body, mark + 1)
            ELSE Drop(body, mark)]

Unsigned(neg, body) == SplitAt(neg, body, ExponentMark(body, 1))

FloatParts(s) == Unsigned(IsNegative(s), IF HasSign(s) THEN Tail(s) ELSE s)

RECURSIVE DecimalValue(_, _)
DecimalValue(s, acc) ==
  IF s = <<>> THEN acc
  ELSE DecimalValue(Tail(s), WAdd(WMul(acc, 10), WOf(DigitVal(Head(s)))))

WHalf(x) == [hi |-> x.hi \div 2, lo |-> (x.lo + (x.hi % 2) * W) \div 2]

\* The binary digits of x > 0, most significant first.
RECURSIVE BitsOf(_)
BitsOf(x) == IF x = WZero THEN <<>> ELSE Append(BitsOf(WHalf(x)), x.lo % 2)

\* The n binary digits of the small number k.
RECURSIVE SmallBits(_, _)
SmallBits(k, n) == IF n = 0 THEN <<>> ELSE Append(SmallBits(k \div 2, n - 1), k % 2)

Zeros(n) == [i \in 1..n |-> 0]

\* A binary numeral plus one (it may grow by a digit).
RECURSIVE Increment(_)
Increment(b) ==
  IF b = <<>> THEN <<1>>
  ELSE IF b[Len(b)] = 0 THEN SubSeq(b, 1, Len(b) - 1) \o <<1>>
  ELSE Increment(SubSeq(b, 1, Len(b) - 1)) \o <<0>>

\* Rounding to nearest, ties to even, of a binary numeral to its first n digits.
RoundBits(b, n) ==
  IF Len(b) <= n THEN [bits |-> b, shift |-> 0]
  ELSE LET kept == SubSeq(b, 1, n)
           rest == SubSeq(b, n + 1, Len(b))
           sticky == \E i \in 2..Len(rest) : rest[i] = 1
           up == rest[1] = 1 /\ (sticky \/ kept[n] = 1)
       IN [bits |-> IF up THEN Increment(kept) ELSE kept, shift |-> Len(rest)]

\* Four binary digits as a hex digit, and a word of them as hex text.
RECURSIVE BitsToHex(_)
BitsToHex(b) ==
  IF b = <<>> THEN <<>>
  ELSE << UpperDigits[b[1] * 8 + b[2] * 4 + b[3] * 2 + b[4] + 1] >>
         \o BitsToHex(Drop(b, 4))

\* The word made of a sign, the biased exponent and the fraction digits of
\* the significand sig (its leading 1 dropped), as upper-case hex text.
IeeeWord(sign, exponent, sig, ebits, mbits) ==
  BitsToHex(<<sign>> \o SmallBits(exponent + 2^(ebits - 1) - 1, ebits)
              \o Tail(sig) \o Zeros(mbits + 1 - Len(sig)))

\* r is the significand rounded to mbits + 1 digits; when rounding carried
\* into a further digit, the significand is 1 followed by zeros.
Rounded(sign, r, ebits, mbits) ==
  IeeeWord(sign, Len(r.bits) + r.shift - 1,
           IF Len(r.bits) > mbits + 1 THEN SubSeq(r.bits, 1, mbits + 1) ELSE r.bits,
           ebits, mbits)

\* The IEEE-754 word of the whole number x >= 0 with the given sign digit, in
\* a format with ebits exponent digits and mbits fraction digits.
IeeeHex(sign, x, ebits, mbits) ==
  IF x = WZero THEN BitsToHex(<<sign>> \o Zeros(ebits + mbits))
  ELSE Rounded(sign, RoundBits(BitsOf(x), mbits + 1), ebits, mbits)

\* The whole number mant * 10^expo, more than maxdigits digits long when it
\* exceeds the format's largest finite value.
EncodeParts(p, expo, ebits, mbits, maxdigits) ==
  IF ~(AllDecDigits(p.mant) /\ expo.ok) THEN Bad
  ELSE IF StripZeros(p.mant) = <<"0">>
       THEN Good(IeeeHex(IF p.neg THEN 1 ELSE 0, WZero, ebits, mbits))
  ELSE IF expo.val.hi > 0 \/ Len(StripZeros(p.mant)) + expo.val.lo > maxdigits THEN Bad
  ELSE Good(IeeeHex(IF p.neg THEN 1 ELSE 0,
                    DecimalValue(p.mant \o [i \in 1..expo.val.lo |-> "0"], WZero),
                    ebits, mbits))

DecimalExponent(p) ==
  IF AllDecDigits(p.expo) THEN ParseDigits(p.expo, 10, WZero)
  ELSE [ok |-> FALSE, val |-> WZero]

WithExponent(p, ebits, mbits, maxdigits) ==
  EncodeParts(p, DecimalExponent(p), ebits, mbits, maxdigits)

\* toFloat/toDouble followed by the bit cast and "{:0nX}": good is false for
\* a text that is no numeral or whose value exceeds the format's largest
\* finite value.
EncodeFloating(input_text, ebits, mbits, maxdigits) ==
  WithExponent(FloatParts(input_text), ebits, mbits, maxdigits)

----------------------------------------------------------------------------
(* ValidateAndPreviewInputValue and GetInputData.                          *)

IntegerIDs == {"S8", "S16", "S32", "U8", "U16", "U32"}
InputIDs == IntegerIDs \cup {"HEXSTR", "FLOAT", "DOUBLE", "ASCII"}

\* m_base_check->setEnabled(...): the integer encodings only.
BaseEnabled(combo) == combo \in IntegerIDs

NotSpace(c) == c # " "

\* input_text.remove(' ') unless the encoding is ASCII.
InputText(text, combo) ==
  IF combo # "ASCII" THEN SelectSeq(text, NotSpace) ELSE text

\* Radix with base 10 when the box is not in effect.
RadixDecimal(checked, enabled) == IF checked /\ enabled THEN 16 ELSE 10

\* Radix that never looks at the box.
RadixIgnoresBox(checked, enabled) == 0

\* radix = (isChecked() && isEnabled()) ? 16 : 0
Radix(checked, enabled) == IF checked /\ enabled THEN 16 ELSE 0

\* InS8Range accepting 128.
InS8RangeOffByOne(value) == WLe(WOf(-128), value) /\ WLe(value, WOf(128))

\* numeric_limits<signed char>::min() <= value && value <= ...::max()
InS8Range(value) == WLe(WOf(-128), value) /\ WLe(value, WOf(127))

\* (value & 0xFF00) == 0, value an unsigned short
InU8Range(value) == value.hi = 0 /\ value.lo \div 256 = 0

\* FormatS8 without the hh length modifier: the short is printed whole.
FormatS8AsShort(value) == StripZeros(Hex4(ToU32(value).lo, UpperDigits))

\* fmt::sprintf("%02hhX", value): the value converted to unsigned char.
FormatS8(value) == Hex2(ToU32(value).lo % 256, UpperDigits)

\* fmt::sprintf("%04hX", value): the value converted to unsigned short.
FormatS16(value) == Hex4(ToU32(value).lo, UpperDigits)

\* fmt::sprintf("%08X", value_int): the value converted to unsigned.
FormatS32(value) == Hex8(ToU32(value), UpperDigits)

\* fmt::format("{:02X}", value), value < 2^8
FormatU8(value) == Hex2(value.lo, UpperDigits)

\* fmt::format("{:04X}", value), value < 2^16
FormatU16(value) == Hex4(value.lo, UpperDigits)

\* fmt::format("{:08X}", value)
FormatU32(value) == Hex8(value, UpperDigits)

\* ^([0-9A-F]{2})*$, case-insensitive
\* is_hex without the pairing: any number of hex digits.
IsHexPairsAnyLength(s) == \A i \in 1..Len(s) : IsHexDigit(s[i])

IsHexPairs(s) == Len(s) % 2 = 0 /\ \A i \in 1..Len(s) : IsHexDigit(s[i])

EncodeS8(p) == IF p.ok /\ InS8Range(p.val) THEN Good(FormatS8(p.val)) ELSE Bad
EncodeS16(p) == IF p.ok THEN Good(FormatS16(p.val)) ELSE Bad
EncodeS32(p) == IF p.ok THEN Good(FormatS32(p.val)) ELSE Bad
EncodeU8(p) == IF p.ok /\ InU8Range(p.val) THEN Good(FormatU8(p.val)) ELSE Bad
EncodeU16(p) == IF p.ok THEN Good(FormatU16(p.val)) ELSE Bad
EncodeU32(p) == IF p.ok THEN Good(FormatU32(p.val)) ELSE Bad

\* The switch on combo_id: whether the text is good, and its hex_string.
Encode(input_text, combo, radix) ==
  CASE combo = "ASCII" -> Good(ToHex(TextBytes(input_text)))
    [] combo = "FLOAT" -> EncodeFloating(input_text, 8, 23, 39)
    [] combo = "DOUBLE" -> EncodeFloating(input_text, 11, 52, 309)
    [] combo = "S8" -> EncodeS8(ToShort(input_text, radix))
    [] combo = "S16" -> EncodeS16(ToShort(input_text, radix))
    [] combo = "S32" -> EncodeS32(ToInt(input_text, radix))
    [] combo = "U8" -> EncodeU8(ToUShort(input_text, radix))
    [] combo = "U16" -> EncodeU16(ToUShort(input_text, radix))
    [] combo = "U32" -> EncodeU32(ToUInt(input_text, radix))
    [] combo = "HEXSTR" ->
         IF IsHexPairs(input_text) THEN Good(ToHex(FromHex(input_text))) ELSE Bad

\* hex_string.insert(output_length - i, ' ') for i = 2, 4, ... < output_length
RECURSIVE InsertSpaces(_, _, _)
InsertSpaces(s, i, output_length) ==
  IF i >= output_length THEN s
  ELSE InsertSpaces(SubSeq(s, 1, output_length - i) \o <<" ">>
                      \o SubSeq(s, output_length - i + 1, Len(s)),
                    i + 2, output_length)

\* The preview of a good hex_string: cut to PreviewCap characters with "..."
\* appended when longer, then spaced in pairs.
PreviewCap == 16

\* The preview cutting a hex_string of PreviewCap characters already.
PreviewCutsAtCap(hex) ==
  IF Len(hex) >= PreviewCap
  THEN InsertSpaces(SubSeq(hex, 1, PreviewCap) \o <<".", ".", ".">>, 2, PreviewCap)
  ELSE InsertSpaces(hex, 2, Len(hex))

Preview(hex) ==
  IF Len(hex) > PreviewCap
  THEN InsertSpaces(SubSeq(hex, 1, PreviewCap) \o <<".", ".", ".">>, 2, PreviewCap)
  ELSE InsertSpaces(hex, 2, Len(hex))

\* The preview keeping what it showed before the call.
PreviewNotCleared(old) == old

\* m_data_preview->clear()
PreviewCleared(old) == <<>>

\* What the call leaves in m_base_check's enabled state, the preview and the
\* edit box's bold/red mark, e being the outcome of the switch.
Validated(text, e, enabled, old_preview, old_bad) ==
  IF text = <<>>
  THEN [enabled |-> enabled, preview |-> PreviewCleared(old_preview), bad |-> old_bad]
  ELSE [enabled |-> enabled,
        preview |-> IF e.good THEN Preview(e.hex) ELSE PreviewCleared(old_preview),
        bad |-> ~e.good]

\* ValidateAndPreviewInputValue as a function of the widgets it reads.
Validate(text, combo, checked, old_preview, old_bad) ==
  Validated(text,
            Encode(InputText(text, combo), combo, Radix(checked, BaseEnabled(combo))),
            BaseEnabled(combo), old_preview, old_bad)

SetValidated(v) ==
  /\ base_enabled' = v.enabled
  /\ data_preview' = v.preview
  /\ data_bad' = v.bad

ValidateAndPreviewInputValue(text, combo, checked) ==
  SetValidated(Validate(text, combo, checked, data_preview, data_bad))

\* GetInputData as a function of the preview, the encoding and the edit box.
InputData(preview, combo, text) ==
  IF preview = <<>> THEN <<>>
  ELSE IF combo = "ASCII" THEN Utf8Bytes(text)
  ELSE IF combo = "HEXSTR" THEN FromHex(text)
  ELSE FromHex(preview)

GetInputData == InputData(data_preview, combo_id, data_edit)

----------------------------------------------------------------------------
(* AddressSpace::Accessors::Search and the start address of FindValue.     *)

\* The mapped addresses: MemSize bytes from address 0, and the last byte of
\* the address space.
Mapped == {WOf(k) : k \in 0..(MemSize - 1)} \cup {U32Max}
MemoryBytes == {0, 1}
Memories == [Mapped -> MemoryBytes]
ZeroMemory == [a \in Mapped |-> 0]

\* The bytes from address a on are those of needle, all of them mapped.
MatchesAt(mem, a, needle) ==
  \A i \in 1..Len(needle) :
    /\ WAdd(a, WOf(i - 1)) \in DOMAIN mem
    /\ mem[WAdd(a, WOf(i - 1))] = needle[i]

Lowest(hits) == CHOOSE a \in hits : \A b \in hits : WLe(a, b)
Highest(hits) == CHOOSE a \in hits : \A b \in hits : WLe(b, a)

Nearest(hits, forward) ==
  IF hits = {} THEN [has_value |-> FALSE, value |-> WZero]
  ELSE [has_value |-> TRUE,
        value |-> IF forward THEN Lowest(hits) ELSE Highest(hits)]

\* The match nearest to haystack_start in the direction searched, without
\* wrapping around the ends of the address space.
Search(mem, haystack_start, needle, forward) ==
  Nearest({a \in DOMAIN mem :
             /\ MatchesAt(mem, a, needle)
             /\ IF forward THEN WLe(haystack_start, a) ELSE WLe(a, haystack_start)},
          forward)

\* accessors->WriteU8 for each call in turn; a write to an address that is
\* not mapped changes nothing.
RECURSIVE WriteAll(_, _)
WriteAll(mem, calls) ==
  IF calls = <<>> THEN mem
  ELSE WriteAll(IF Head(calls).address \in DOMAIN mem
                THEN [mem EXCEPT ![Head(calls).address] = Head(calls).value]
                ELSE mem,
                Tail(calls))

\* The u32 sum  address + (next ? 1 : -1).
StepWraps(address, next) ==
  ToU32(IF next THEN WAdd(address, WOf(1)) ELSE WSub(address, WOf(1)))

\* FindValue skips the quoted address unless the address box is empty.
SearchStart(address, address_text, next) ==
  IF address_text # <<>> THEN StepWraps(address, next) ELSE address

----------------------------------------------------------------------------
(* Input texts.                                                            *)

Deltas == 0..MaxDelta

\* Addresses around 0, 2^31 and 2^32 - 1.
AddrSamples ==
  {WOf(k) : k \in Deltas}
    \cup {WSub(S32Max, WOf(k)) : k \in Deltas}
    \cup {WAdd(WAdd(S32Max, WOf(1)), WOf(k)) : k \in Deltas}
    \cup {WSub(U32Max, WOf(k)) : k \in Deltas}

\* Offsets around -2^31, 0 and 2^31 - 1.
OffsetSamples ==
  {WAdd(S32Min, WOf(k)) : k \in Deltas}
    \cup {WOf(-k) : k \in Deltas}
    \cup {WOf(k) : k \in Deltas}
    \cup {WSub(S32Max, WOf(k)) : k \in Deltas}

\* A signed value as typed: a minus sign and the hex digits of the magnitude.
SignedHex(v) ==
  IF WLt(v, WZero) THEN <<"-">> \o StripZeros(Hex8(ToU32(WNeg(v)), UpperDigits))
  ELSE StripZeros(Hex8(ToU32(v), UpperDigits))

\* m_search_address holds at most 8 characters (setMaxLength(8)).
AddressTexts ==
  {StripZeros(Hex8(a, UpperDigits)) : a \in AddrSamples}
    \cup {Hex8(a, LowerDigits) : a \in AddrSamples}
    \cup {<<>>, <<"G">>, <<"-", "1">>, <<"0", "x", "1">>}

\* m_search_offset holds at most 9 characters (setMaxLength(9)).
OffsetTexts ==
  {SignedHex(o) : o \in OffsetSamples}
    \cup {<<>>, <<"Z">>, <<"+", "1">>, <<"-">>, <<"-", "0">>,
          <<"8", "0", "0", "0", "0", "0", "0", "0">>,
          <<"-", "8", "0", "0", "0", "0", "0", "0", "1">>}

\* 2^n as a wide integer, n <= 32.
Pow2(n) == IF n < 16 THEN WOf(2^n) ELSE [hi |-> 2^(n - 16), lo |-> 0]

\* The limits of the integer encodings' ranges.
IntBoundaries ==
  {WNeg(Pow2(31)), WNeg(Pow2(15)), WNeg(Pow2(7)), WZero,
   Pow2(7), Pow2(8), Pow2(15), Pow2(16), Pow2(31), Pow2(32)}

\* Whole numbers on both sides of each limit.
IntSamples == {WAdd(b, WOf(d)) : b \in IntBoundaries, d \in (-MaxDelta)..(MaxDelta - 1)}

\* x \div 10 and x % 10 of a wide integer x >= 0.
WDiv10(x) ==
  LET rest == (x.hi % 10) * W + x.lo
  IN [quot |-> [hi |-> x.hi \div 10, lo |-> rest \div 10], rem |-> rest % 10]

RECURSIVE DecDigits(_)
DecDigits(x) ==
  IF WLt(x, WOf(10)) THEN << UpperDigits[x.lo + 1] >>
  ELSE Append(DecDigits(WDiv10(x).quot), UpperDigits[WDiv10(x).rem + 1])

\* A whole number as typed in decimal.
SignedDec(v) ==
  IF WLt(v, WZero) THEN <<"-">> \o DecDigits(WNeg(v)) ELSE DecDigits(v)

\* A whole number as typed in hex; its magnitude may need nine digits.
SignedHexWide(v) ==
  LET m == IF WLt(v, WZero) THEN WNeg(v) ELSE v
      digits == IF m.hi >= W THEN <<"1">> \o Hex8(ToU32(m), UpperDigits)
                ELSE StripZeros(Hex8(m, UpperDigits))
  IN IF WLt(v, WZero) THEN <<"-">> \o digits ELSE digits

\* Texts that are no plain numerals, or are numerals only in some base or
\* some encoding.
OtherDataTexts ==
  { <<>>,
    <<" ">>,
    <<"0", "1", "0">>,
    <<"0", "8">>,
    <<"0", "x", "1", "0">>,
    <<"-", "0", "x", "8", "0">>,
    <<"0", "x">>,
    <<"+", "1">>,
    <<"-">>,
    <<"1", " ", "2">>,
    <<"a", "b">>,
    <<"A", "B", "C">>,
    <<"Z", "Z">>,
    <<"1", "E", "2">>,
    <<"G", "G", "G", "G", "G", "G", "G", "G", "G">>,
    <<"G", "G", "G", "G", "G", "G", "G", "eacute">>,
    <<"0", "A", "0", "B", "0", "C", "0", "D", "0", "E", "0", "F", "1", "0", "1", "1">>,
    <<"0", "A", " ", "0", "B", " ", "0", "C", " ", "0", "D", " ", "0", "E", " ",
      "0", "F", " ", "1", "0", " ", "1", "1", " ", "1", "2">> }

\* Texts for m_data_edit.
DataTexts ==
  {SignedDec(v) : v \in IntSamples} \cup {SignedHexWide(v) : v \in IntSamples}
    \cup OtherDataTexts

----------------------------------------------------------------------------
(* Handlers.                                                               *)

\* No call of accessors->Search.
NoCall == [made |-> FALSE, start |-> WZero, needle |-> <<>>, forward |-> FALSE]

\* A handler that calls neither Search nor WriteU8 and shows no message box.
NoCalls ==
  /\ search_call' = NoCall
  /\ writes' = <<>>
  /\ message_box' = ""

\* OnSearchAddress: position the view when the target is good; mark the
\* fields that are not.
ShowTarget(target_addr) ==
  /\ view_address' =
       IF target_addr.is_good_address /\ target_addr.is_good_offset
       THEN target_addr.address ELSE view_address
  /\ addr_bad' = ~target_addr.is_good_address
  /\ offset_bad' = ~target_addr.is_good_offset

OnSearchAddress(address_text, offset_text) ==
  ShowTarget(TargetAddress(address_text, offset_text))

\* The user edits m_search_address: textChanged -> OnSearchAddress.
SetSearchAddress(t) ==
  /\ search_address' = t
  /\ OnSearchAddress(t, search_offset)
  /\ UNCHANGED <<search_offset, codecVars, findVars>>
  /\ NoCalls

EditSearchAddress ==
  \E t \in AddressTexts : t # search_address /\ SetSearchAddress(t)

\* The user edits m_search_offset: textChanged -> OnSearchAddress.
SetSearchOffset(t) ==
  /\ search_offset' = t
  /\ OnSearchAddress(search_address, t)
  /\ UNCHANGED <<search_address, codecVars, findVars>>
  /\ NoCalls

EditSearchOffset ==
  \E t \in OffsetTexts : t # search_offset /\ SetSearchOffset(t)

\* The user edits m_data_edit: textChanged -> ValidateAndPreviewInputValue.
SetData(t) ==
  /\ data_edit' = t
  /\ ValidateAndPreviewInputValue(t, combo_id, base_checked)
  /\ UNCHANGED <<combo_id, base_checked, addrVars, findVars>>
  /\ NoCalls

EditData ==
  \E t \in DataTexts : t # data_edit /\ SetData(t)

\* The user picks another entry of m_input_combo: currentIndexChanged ->
\* ValidateAndPreviewInputValue.
SelectInput ==
  \E c \in InputIDs :
    /\ c # combo_id
    /\ combo_id' = c
    /\ ValidateAndPreviewInputValue(data_edit, c, base_checked)
    /\ UNCHANGED <<data_edit, base_checked, addrVars, findVars>>
    /\ NoCalls

\* The user clicks m_base_check, which takes clicks only while enabled:
\* toggled -> ValidateAndPreviewInputValue.
ToggleBase ==
  /\ base_enabled
  /\ base_checked' = ~base_checked
  /\ ValidateAndPreviewInputValue(data_edit, combo_id, ~base_checked)
  /\ UNCHANGED <<data_edit, combo_id, addrVars, findVars>>
  /\ NoCalls

\* The state the constructor leaves: empty line edits, the Hex box unchecked,
\* the encoding that LoadSettings read (one of combos), and the effect of the
\* ValidateAndPreviewInputValue call made through OnTypeChanged.
InitWith(combos, memories, running) ==
  /\ result_label = ""
  /\ memory \in memories
  /\ core_running \in running
  /\ search_call = NoCall
  /\ writes = <<>>
  /\ message_box = ""
  /\ search_address = <<>>
  /\ search_offset = <<>>
  /\ addr_bad = FALSE
  /\ offset_bad = FALSE
  /\ view_address = WZero
  /\ data_edit = <<>>
  /\ combo_id \in combos
  /\ base_checked = FALSE
  /\ base_enabled = BaseEnabled(combo_id)
  /\ data_preview = <<>>
  /\ data_bad = FALSE

\* The fonts of the two search boxes after a setText/clear of FindValue: the
\* textChanged signal runs OnSearchAddress only when the text changed.
FontsAfter(fonts, changed, target_addr) ==
  IF changed
  THEN [addr_bad |-> ~target_addr.is_good_address,
        offset_bad |-> ~target_addr.is_good_offset]
  ELSE fonts

FontsOfFound(new_text, old_text, old_offset, fonts) ==
  FontsAfter(FontsAfter(fonts, new_text # old_text,
                        TargetAddress(new_text, old_offset)),
             old_offset # <<>>, TargetAddress(new_text, <<>>))

SetFonts(fonts) ==
  /\ addr_bad' = fonts.addr_bad
  /\ offset_bad' = fonts.offset_bad

\* FindValue returning after setting the result label only, before the search.
Report(text) ==
  /\ result_label' = text
  /\ search_call' = NoCall
  /\ UNCHANGED <<addrVars, codecVars>>

\* FindValue showing a match without emptying the offset box.
ShowFoundKeepsOffset(found_addr) ==
  IF found_addr.has_value
  THEN /\ result_label' = "Match Found"
       /\ search_address' = Hex8(found_addr.value, LowerDigits)
       /\ SetFonts(FontsAfter([addr_bad |-> addr_bad, offset_bad |-> offset_bad],
                              TRUE,
                              TargetAddress(Hex8(found_addr.value, LowerDigits),
                                            search_offset)))
       /\ view_address' = found_addr.value
       /\ UNCHANGED <<search_offset, codecVars>>
  ELSE /\ result_label' = "No Match"
       /\ UNCHANGED <<addrVars, codecVars>>

\* FindValue after the search: show the match, or report that there is none.
ShowFound(found_addr) ==
  IF found_addr.has_value
  THEN /\ result_label' = "Match Found"
       /\ search_address' = Hex8(found_addr.value, LowerDigits)
       /\ search_offset' = <<>>
       /\ SetFonts(FontsOfFound(Hex8(found_addr.value, LowerDigits),
                                search_address, search_offset,
                                [addr_bad |-> addr_bad, offset_bad |-> offset_bad]))
       /\ view_address' = found_addr.value
       /\ UNCHANGED codecVars
  ELSE /\ result_label' = "No Match"
       /\ UNCHANGED <<addrVars, codecVars>>

\* FindValue from the call of accessors->Search on.
Searched(call) ==
  /\ search_call' = call
  /\ ShowFound(Search(memory, call.start, call.needle, call.forward))

\* FindValue looking at the value before the address and the offset.
FindFromValueFirst(target_addr, search_for, next) ==
  IF search_for = <<>> THEN Report("Bad Value Given")
  ELSE IF ~target_addr.is_good_address THEN Report("Bad address provided.")
  ELSE IF ~target_addr.is_good_offset THEN Report("Bad offset provided.")
  ELSE Searched([made |-> TRUE,
                 start |-> SearchStart(target_addr.address, search_address, next),
                 needle |-> search_for, forward |-> next])

FindFrom(target_addr, search_for, next) ==
  IF ~target_addr.is_good_address THEN Report("Bad address provided.")
  ELSE IF ~target_addr.is_good_offset THEN Report("Bad offset provided.")
  ELSE IF search_for = <<>> THEN Report("Bad Value Given")
  ELSE Searched([made |-> TRUE,
                 start |-> SearchStart(target_addr.address, search_address, next),
                 needle |-> search_for, forward |-> next])

FindValue(next) == FindFrom(GetTargetAddress, GetInputData, next)

\* What FindValue leaves alone: it writes no memory and shows no message box.
FindFrame ==
  /\ writes' = <<>>
  /\ message_box' = ""
  /\ UNCHANGED <<memory, core_running>>

\* The Find buttons.
OnFindNextValue == FindValue(TRUE) /\ FindFrame
OnFindPreviousValue == FindValue(FALSE) /\ FindFrame

\* The WriteU8 calls of the loop of OnSetValue: target_addr.address++ is u32.
WriteCalls(address, bytes) ==
  [i \in 1..Len(bytes) |->
     [address |-> ToU32(WAdd(address, WOf(i - 1))), value |-> bytes[i]]]

\* OnSetValue returning without a write, after a message box if text is not "".
Refuse(text) ==
  /\ message_box' = text
  /\ writes' = <<>>
  /\ UNCHANGED memory

Written(calls) ==
  /\ writes' = calls
  /\ memory' = WriteAll(memory, calls)
  /\ message_box' = ""

\* OnSetValue writing although the core is not running.
SetFromAnyCore(running, target_addr, bytes) ==
  IF ~target_addr.is_good_address THEN Refuse("Bad address provided.")
  ELSE IF ~target_addr.is_good_offset THEN Refuse("Bad offset provided.")
  ELSE IF bytes = <<>> THEN Refuse("Bad value provided.")
  ELSE Written(WriteCalls(target_addr.address, bytes))

SetFrom(running, target_addr, bytes) ==
  IF ~running THEN Refuse("")
  ELSE IF ~target_addr.is_good_address THEN Refuse("Bad address provided.")
  ELSE IF ~target_addr.is_good_offset THEN Refuse("Bad offset provided.")
  ELSE IF bytes = <<>> THEN Refuse("Bad value provided.")
  ELSE Written(WriteCalls(target_addr.address, bytes))

\* The Set Value button.  Update() redraws the view from the memory.
OnSetValue ==
  /\ SetFrom(core_running, GetTargetAddress, GetInputData)
  /\ search_call' = NoCall
  /\ UNCHANGED <<addrVars, codecVars, result_label, core_running>>

\* The emulation starts or stops: Core::IsRunning() changes, and
\* EmulationStateChanged runs Update().
EmulationStateChanged ==
  /\ core_running' = ~core_running
  /\ NoCalls
  /\ UNCHANGED <<addrVars, codecVars, result_label, memory>>

\* Address resolution alone, from the default settings ("memorywidget/inputcombo"
\* defaults to index 1, the ASCII entry).
InitAddr == InitWith({"ASCII"}, {ZeroMemory}, {FALSE})
NextAddr == EditSearchAddress \/ EditSearchOffset
SpecAddr == InitAddr /\ [][NextAddr]_vars

\* The value box, the encoding list and the Hex box.
InitCodec == InitWith(InputIDs, {ZeroMemory}, {FALSE})
NextCodec == EditData \/ SelectInput \/ ToggleBase
SpecCodec == InitCodec /\ [][NextCodec]_vars

\* Searching a memory for a string of hex bytes.
FindAddressTexts == {<<>>, <<"G">>} \cup {Hex8(a, LowerDigits) : a \in Mapped}
FindOffsetTexts == {<<>>, <<"1">>, <<"-", "1">>, <<"Z">>}
FindDataTexts ==
  {<<>>, <<"0", "0">>, <<"0", "1">>, <<"0", "0", "0", "1">>, <<"Z", "Z">>}

TypeFindAddress ==
  \E t \in FindAddressTexts : t # search_address /\ SetSearchAddress(t)
TypeFindOffset ==
  \E t \in FindOffsetTexts : t # search_offset /\ SetSearchOffset(t)
TypeFindData ==
  \E t \in FindDataTexts : t # data_edit /\ SetData(t)

InitFind == InitWith({"HEXSTR"}, Memories, {FALSE})
NextFind ==
  \/ TypeFindAddress
  \/ TypeFindOffset
  \/ TypeFindData
  \/ OnFindNextValue
  \/ OnFindPreviousValue
SpecFind == InitFind /\ [][NextFind]_vars

\* Setting bytes of a memory.
SetAddressTexts == {<<>>, <<"G">>, Hex8(WZero, LowerDigits), Hex8(U32Max, LowerDigits)}
SetOffsetTexts == {<<>>, <<"1">>, <<"-", "1">>, <<"Z">>}
SetDataTexts ==
  {<<>>, <<"0", "1">>, <<"0", "0", "0", "1">>, <<"0", "1", " ", "0", "1", "0", "0">>,
   <<"Z", "Z">>}

TypeSetAddress ==
  \E t \in SetAddressTexts : t # search_address /\ SetSearchAddress(t)
TypeSetOffset ==
  \E t \in SetOffsetTexts : t # search_offset /\ SetSearchOffset(t)
TypeSetData ==
  \E t \in SetDataTexts : t # data_edit /\ SetData(t)

InitSet == InitWith({"HEXSTR"}, {ZeroMemory}, BOOLEAN)
NextSet ==
  \/ TypeSetAddress
  \/ TypeSetOffset
  \/ TypeSetData
  \/ EmulationStateChanged
  \/ OnSetValue
SpecSet == InitSet /\ [][NextSet]_vars

\* Hex strings as values to find and to set, at address 0 of a running core.
HexTexts ==
  { <<>>, <<" ">>, <<" ", " ">>, <<"0">>, <<"Z", "Z">>, <<"0", "Z">>,
    <<"0", "a">>, <<"0", "A">>, <<"a", " ", "b">>, <<"0", " ", "1", " ", "0">>,
    <<"0", "0", " ", "0", "1">>, <<"a", "b", "c">>, <<"0", "x", "1", "0">>,
    <<"0", "1", "eacute">> }

TypeHexData ==
  \E t \in HexTexts : t # data_edit /\ SetData(t)

InitHex == InitWith({"HEXSTR"}, {ZeroMemory}, {TRUE})
NextHex ==
  \/ TypeHexData
  \/ OnFindNextValue
  \/ OnFindPreviousValue
  \/ OnSetValue
SpecHex == InitHex /\ [][NextHex]_vars

----------------------------------------------------------------------------
(* Address resolution: claims C1-C4, checked under SpecAddr.               *)

ParsedAddr == ToUInt(search_address, 16)
ParsedOffset == ToInt(search_offset, 16)
\* The sum of the parsed address and offset as an unbounded integer.
TrueSum == WAdd(ParsedAddr.val, ParsedOffset.val)
FitsU32(x) == WLe(WZero, x) /\ WLe(x, U32Max)
GoodTarget(a) == [address |-> a, is_good_address |-> TRUE, is_good_offset |-> TRUE]

\* C1: when the address text parses as unsigned 32-bit hex (value A), the
\* offset text parses as signed 32-bit hex (value O) and 0 <= A + O <= 2^32 - 1
\* as a true integer sum, GetTargetAddress returns both flags true and
\* address = A + O.
C1_SumInRange ==
  (ParsedAddr.ok /\ ParsedOffset.ok /\ FitsU32(TrueSum))
    => GetTargetAddress = GoodTarget(TrueSum)

\* A negative offset applied to a parsed address, the view positioned at the sum.
C1_Witness ==
  /\ ParsedAddr.ok /\ ParsedOffset.ok
  /\ WLt(ParsedOffset.val, WZero)
  /\ FitsU32(TrueSum)
  /\ view_address = TrueSum
  /\ view_address # ParsedAddr.val

\* C2: for a parseable address A and a parseable offset O, is_good_offset is
\* false exactly when the true sum A + O is below 0 or above 2^32 - 1; at the
\* limits, (2^32 - 1, 0) is accepted with address 2^32 - 1, and (2^32 - 1, 1)
\* and (0, -1) are rejected.
C2_OffsetFlagExact ==
  (ParsedAddr.ok /\ ParsedOffset.ok)
    => /\ ~GetTargetAddress.is_good_offset <=> ~FitsU32(TrueSum)
       /\ (ParsedAddr.val = U32Max /\ ParsedOffset.val = WZero)
            => GetTargetAddress = GoodTarget(U32Max)
       /\ (ParsedAddr.val = U32Max /\ ParsedOffset.val = WOf(1))
            => ~GetTargetAddress.is_good_offset
       /\ (ParsedAddr.val = WZero /\ ParsedOffset.val = WOf(-1))
            => ~GetTargetAddress.is_good_offset

\* The sum is exactly 2^32 - 1 with a positive offset, and is accepted.
C2_Witness ==
  /\ ParsedAddr.ok /\ ParsedOffset.ok
  /\ WLt(WZero, ParsedOffset.val)
  /\ TrueSum = U32Max
  /\ ~offset_bad
  /\ view_address = U32Max

\* C3: with the offset -2^31 the magnitude 2^31 is used: is_good_offset is
\* false for every address A < 2^31, and true with address = A - 2^31 for
\* every address A >= 2^31.
C3_MinOffset ==
  (ParsedAddr.ok /\ ParsedOffset.ok /\ ParsedOffset.val = S32Min)
    => IF WLe(ParsedAddr.val, S32Max)
       THEN ~GetTargetAddress.is_good_offset
       ELSE GetTargetAddress = GoodTarget(WAdd(ParsedAddr.val, S32Min))

\* The offset -2^31 accepted on an address above 2^31.
C3_Witness ==
  /\ ParsedAddr.ok /\ ParsedOffset.ok
  /\ ParsedOffset.val = S32Min
  /\ WLt(WAdd(S32Max, WOf(1)), ParsedAddr.val)
  /\ ~offset_bad
  /\ view_address = WAdd(ParsedAddr.val, S32Min)

\* C4: an empty address text is the valid address 0 and an empty offset text
\* the valid offset 0: both empty give address 0 with both flags true; an
\* empty address with a valid non-negative offset O gives address O; an empty
\* offset with a valid address A gives address A.
C4_EmptyTexts ==
  /\ (search_address = <<>> /\ search_offset = <<>>)
       => GetTargetAddress = GoodTarget(WZero)
  /\ (search_address = <<>> /\ ParsedOffset.ok /\ WLe(WZero, ParsedOffset.val))
       => GetTargetAddress = GoodTarget(ParsedOffset.val)
  /\ (search_offset = <<>> /\ ParsedAddr.ok)
       => GetTargetAddress = GoodTarget(ParsedAddr.val)

\* An empty address with a positive offset, shown as good and viewed.
C4_Witness ==
  /\ search_address = <<>>
  /\ ParsedOffset.ok /\ WLt(WZero, ParsedOffset.val)
  /\ ~addr_bad /\ ~offset_bad
  /\ view_address = ParsedOffset.val

----------------------------------------------------------------------------
(* Value validation: claims C5-C9, checked under SpecCodec.                *)

\* The edit box is not marked bad: the last validation of a non-empty text
\* succeeded.
Accepted == data_edit # <<>> /\ ~data_bad
EffectiveHex == base_checked /\ base_enabled
Stripped == InputText(data_edit, combo_id)
SignedIDs == {"S8", "S16", "S32"}
NumericIDs == IntegerIDs \cup {"FLOAT", "DOUBLE"}

\* The byte width of an integer encoding.
Width(combo) ==
  CASE combo \in {"S8", "U8"} -> 1
    [] combo \in {"S16", "U16"} -> 2
    [] combo \in {"S32", "U32"} -> 4

\* The w bytes of the two's-complement representation of v modulo 2^(8w),
\* most significant first.
BigEndian(v, w) ==
  LET u == ToU32(v)
  IN CASE w = 1 -> << u.lo % 256 >>
       [] w = 2 -> << u.lo \div 256, u.lo % 256 >>
       [] w = 4 -> << u.hi \div 256, u.hi % 256, u.lo \div 256, u.lo % 256 >>

\* A numeral read in one given base: a sign, a 0x prefix when the base is 16,
\* then digits of that base only.
Reading(s, base) ==
  LET body == IF HasSign(s) THEN Tail(s) ELSE s
      digits == IF base = 16 /\ HasHexPrefix(body) THEN Drop(body, 2) ELSE body
      r == ParseDigits(digits, base, WZero)
  IN [ok |-> digits # <<>> /\ r.ok,
      val |-> IF IsNegative(s) THEN WNeg(r.val) ELSE r.val]

\* The base the C convention gives a numeral: 16 after 0x, 8 after a leading
\* 0, and 10 otherwise.
AutoBase(s) ==
  LET body == IF HasSign(s) THEN Tail(s) ELSE s
  IN IF HasHexPrefix(body) THEN 16
     ELSE IF body # <<>> /\ Head(body) = "0" THEN 8 ELSE 10

ReadAs(base) ==
  /\ Reading(Stripped, base).ok
  /\ GetInputData = BigEndian(Reading(Stripped, base).val, Width(combo_id))

\* C5 as claimed: for the six integer encodings the value text is read in
\* base 16 when the hex box is checked and in base 10 otherwise, so with the
\* box unchecked every accepted text is a decimal numeral and has its decimal
\* value (a leading 0 or a 0x prefix gives no octal or hexadecimal value).
C5_DecimalWhenUnchecked ==
  (combo_id \in IntegerIDs /\ Accepted)
    => ReadAs(IF EffectiveHex THEN 16 ELSE 10)

\* C5 as amended: for the six integer encodings the value text is read in
\* base 16 when the hex box is checked; otherwise it is read with radix 0,
\* the C convention: hexadecimal after a 0x prefix, octal after a leading 0,
\* decimal otherwise.
C5_RadixZeroWhenUnchecked ==
  (combo_id \in IntegerIDs /\ Accepted)
    => ReadAs(IF EffectiveHex THEN 16 ELSE AutoBase(Stripped))

\* With the box unchecked, 010 is accepted as an integer and yields the byte 8.
C5_Witness ==
  /\ combo_id \in IntegerIDs /\ ~EffectiveHex /\ Accepted
  /\ data_edit = <<"0", "1", "0">>
  /\ GetInputData[Len(GetInputData)] = 8

\* The hex digits of the encoded value, fed back as the value text for the
\* same encoding with the hex base on, give the same bytes.
RoundTrip ==
  LET t == ToHex(GetInputData)
      v == Validate(t, combo_id, TRUE, <<>>, FALSE)
  IN InputData(v.preview, combo_id, t) = GetInputData

\* C6 as claimed: for every numeric encoding and every value in its range,
\* negative values of the signed encodings included, the hex digits of
\* encode(v) fed back as the value text validate and yield the bytes of
\* encode(v).
C6_RoundTripAll == (combo_id \in NumericIDs /\ Accepted) => RoundTrip

\* C6 as amended: the round trip holds for the six integer encodings and
\* every value of an unsigned encoding and every non-negative value of a
\* signed one (an encoded value whose sign bit is clear).
C6_RoundTripNonNegative ==
  (/\ combo_id \in IntegerIDs /\ Accepted
   /\ combo_id \in SignedIDs => GetInputData[1] < 128)
    => RoundTrip

\* 32767 as Signed 16, the largest value whose digits read back in range.
C6_Witness ==
  /\ combo_id = "S16" /\ Accepted
  /\ GetInputData = <<127, 255>>
  /\ RoundTrip

\* The text read as a wider signed, or unsigned, integer in the radix in
\* effect.
WideSigned == ParseInteger(Stripped, Radix(base_checked, base_enabled), TRUE,
                           WNeg(U32Max), U32Max)
WideUnsigned == ParseInteger(Stripped, Radix(base_checked, base_enabled), FALSE,
                             WZero, U32Max)

\* C7: a text that parses to the integer n is accepted as Signed 8 iff
\* -128 <= n <= 127 and as Unsigned 8 iff 0 <= n <= 255; any other parsed
\* value fails validation and produces no preview and no bytes.
C7_EightBitRanges ==
  /\ (combo_id = "S8" /\ WideSigned.ok)
       => (Accepted <=> (WLe(WOf(-128), WideSigned.val) /\ WLe(WideSigned.val, WOf(127))))
  /\ (combo_id = "U8" /\ WideUnsigned.ok)
       => (Accepted <=> WLe(WideUnsigned.val, WOf(255)))
  /\ (combo_id \in {"S8", "U8"})
       => IF Accepted THEN data_preview # <<>> /\ Len(GetInputData) = 1
          ELSE data_preview = <<>> /\ GetInputData = <<>>

\* 128 typed as Signed 8 is marked bad and gives nothing.
C7_Witness ==
  /\ combo_id = "S8"
  /\ WideSigned.ok /\ WideSigned.val = WOf(128)
  /\ data_bad /\ data_preview = <<>>

\* The value the code converts the text to, in the wider type it uses.
CodeValue ==
  CASE combo_id \in {"S8", "S16"} -> ToShort(Stripped, Radix(base_checked, base_enabled)).val
    [] combo_id \in {"U8", "U16"} -> ToUShort(Stripped, Radix(base_checked, base_enabled)).val
    [] combo_id = "S32" -> ToInt(Stripped, Radix(base_checked, base_enabled)).val
    [] combo_id = "U32" -> ToUInt(Stripped, Radix(base_checked, base_enabled)).val

\* C8: for an integer encoding of width w bytes and an accepted value v,
\* GetInputData returns exactly w bytes, the two's-complement representation
\* of v modulo 2^(8w), most significant byte first; a negative value is not
\* sign-extended beyond w bytes.
C8_BigEndianWidth ==
  (combo_id \in IntegerIDs /\ Accepted)
    => /\ Len(GetInputData) = Width(combo_id)
       /\ GetInputData = BigEndian(CodeValue, Width(combo_id))

\* -128 as Signed 8 is the single byte 0x80.
C8_Witness ==
  /\ combo_id = "S8" /\ Accepted
  /\ CodeValue = WOf(-128)
  /\ GetInputData = <<128>>

\* What validating the current inputs afresh gives.
ValidNow ==
  /\ data_edit # <<>>
  /\ Encode(Stripped, combo_id, Radix(base_checked, BaseEnabled(combo_id))).good

\* C9: after any sequence of edits, encoding selections and hex-box toggles
\* the preview and the bytes of GetInputData reflect the current inputs only:
\* when the current text fails validation under the selected encoding and
\* the base in effect, the preview is empty and GetInputData returns no bytes.
C9_NoStalePreview ==
  /\ base_enabled = BaseEnabled(combo_id)
  /\ data_preview = Validate(data_edit, combo_id, base_checked, <<>>, FALSE).preview
  /\ ~ValidNow => (data_preview = <<>> /\ GetInputData = <<>>)

\* The hex box is checked (it was toggled under an integer encoding), the
\* encoding is now Float, and the text, good as a hex integer, is marked bad.
C9_Witness ==
  /\ combo_id = "FLOAT" /\ base_checked /\ ~base_enabled
  /\ data_edit = <<"7", "F">>
  /\ data_bad /\ data_preview = <<>> /\ GetInputData = <<>>

----------------------------------------------------------------------------
(* Searching: claim C10, checked under SpecFind.                           *)

\* The target resolves, a pattern is given, and the memory holds the pattern
\* at the resolved address M.
AtKnownMatch ==
  /\ GetTargetAddress.is_good_address
  /\ GetTargetAddress.is_good_offset
  /\ GetInputData # <<>>
  /\ MatchesAt(memory, GetTargetAddress.address, GetInputData)

\* A step of FindValue that reports a match; the address reported is the one
\* the view is moved to.
NextReports == OnFindNextValue /\ result_label' = "Match Found"
PreviousReports == OnFindPreviousValue /\ result_label' = "Match Found"

FindSkipsForward ==
  (search_address # <<>> /\ AtKnownMatch /\ NextReports)
    => WLt(GetTargetAddress.address, view_address')
FindSkipsBackward ==
  (search_address # <<>> /\ AtKnownMatch /\ PreviousReports)
    => WLt(view_address', GetTargetAddress.address)
FindFromEmptyHitsStart ==
  (search_address = <<>> /\ AtKnownMatch /\ (OnFindNextValue \/ OnFindPreviousValue))
    => /\ result_label' = "Match Found"
       /\ view_address' = GetTargetAddress.address

\* C10: with a non-empty address text that resolves to a known match position
\* M, Find Next reports only addresses strictly greater than M and Find
\* Previous only addresses strictly less than M; with an empty address text
\* the start is not adjusted and the match at the resolved start is reported.
C10_FindSkipsCurrent ==
  [][FindSkipsForward /\ FindSkipsBackward /\ FindFromEmptyHitsStart]_vars

\* The same away from the two ends of the address space, where the u32 step
\* of line 849 does not wrap.
C10_AwayFromEnds ==
  [][/\ GetTargetAddress.address # U32Max => FindSkipsForward
     /\ GetTargetAddress.address # WZero => FindSkipsBackward
     /\ FindFromEmptyHitsStart]_vars

\* A match has been reported for a search that started from a typed address.
C10_Witness ==
  /\ result_label = "Match Found"
  /\ search_offset = <<>>
  /\ view_address = ParsedAddr.val
  /\ MatchesAt(memory, view_address, GetInputData)
  /\ GetInputData # <<>>


----------------------------------------------------------------------------
(* Searching: claims C11, C12, C16, checked under SpecFind.                *)

FindStep == OnFindNextValue \/ OnFindPreviousValue

\* What FindValue reports when it returns before the search: the text of the
\* result label, no call of the region search, the search boxes as they were.
Rejects(text) ==
  /\ result_label' = text
  /\ ~search_call'.made
  /\ UNCHANGED addrVars

\* C11: FindValue reports a bad address, then a bad offset, then a bad (empty)
\* value, in that order, each without calling the region search and without
\* reporting "No Match"; the search is called only when all three are good.
C11_ErrorsBeforeSearch ==
  [][FindStep =>
       IF ~GetTargetAddress.is_good_address THEN Rejects("Bad address provided.")
       ELSE IF ~GetTargetAddress.is_good_offset THEN Rejects("Bad offset provided.")
       ELSE IF GetInputData = <<>> THEN Rejects("Bad Value Given")
       ELSE /\ search_call'.made
            /\ search_call'.needle = GetInputData
            /\ result_label' \in {"Match Found", "No Match"}]_vars

\* A find was refused for its address while the offset and the value were bad
\* as well.
C11_Witness ==
  /\ result_label = "Bad address provided."
  /\ ~search_call.made
  /\ ~GetTargetAddress.is_good_address
  /\ search_offset = <<"Z">>
  /\ data_edit = <<"Z", "Z">>
  /\ GetInputData = <<>>


\* The resolved target address of the current texts.
TargetNow == GetTargetAddress.address

\* C12: with a non-empty address text, the start position handed to the region
\* search is >= the resolved target T when searching forward and <= T when
\* searching backward (no wrap-around at 2^32 - 1 or at 0).
C12_NoWrapAround ==
  [][(FindStep /\ search_address # <<>> /\ search_call'.made) =>
       IF search_call'.forward
       THEN WLe(TargetNow, search_call'.start)
       ELSE WLe(search_call'.start, TargetNow)]_vars

\* The same for targets other than 2^32 - 1 (forward) and 0 (backward), where
\* the start is exactly one past the target.
C12_AwayFromEnds ==
  [][(FindStep /\ search_address # <<>> /\ search_call'.made) =>
       IF search_call'.forward
       THEN TargetNow # U32Max => search_call'.start = WAdd(TargetNow, WOf(1))
       ELSE TargetNow # WZero => search_call'.start = WSub(TargetNow, WOf(1))]_vars

\* A forward search from a typed address that found nothing: the texts are
\* those it started from, and the start was one past the target.
C12_Witness ==
  /\ search_call.made
  /\ search_call.forward
  /\ result_label = "No Match"
  /\ search_address # <<>>
  /\ search_call.start = WAdd(TargetNow, WOf(1))


\* C16: a FindValue that finds a match at M leaves the 8-digit zero-padded hex
\* of M in the address box and the offset box empty, so that GetTargetAddress
\* then returns M with both flags true, and positions the view at M, whatever
\* the offset text was; a FindValue that ends in any other outcome leaves
\* both texts as they were.
C16_TextsAfterFind ==
  [][FindStep =>
       IF result_label' = "Match Found"
       THEN /\ search_call'.made
            /\ Len(search_address') = 8
            /\ search_address' = Hex8(view_address', LowerDigits)
            /\ search_offset' = <<>>
            /\ TargetAddress(search_address', search_offset') = GoodTarget(view_address')
            /\ ~addr_bad' /\ ~offset_bad'
       ELSE /\ result_label' \in {"Bad address provided.", "Bad offset provided.",
                                  "Bad Value Given", "No Match"}
            /\ search_address' = search_address
            /\ search_offset' = search_offset
            /\ view_address' = view_address]_vars

\* A forward search that started at address 0 found its match at address 1,
\* and the boxes show that match.
C16_Witness ==
  /\ result_label = "Match Found"
  /\ search_call.made
  /\ search_offset = <<>>
  /\ search_address = Hex8(view_address, LowerDigits)
  /\ search_call.forward
  /\ search_call.start = WOf(0)
  /\ view_address = WOf(1)


----------------------------------------------------------------------------
(* The preview and the bytes: claims C13, C14, checked under SpecCodec.    *)

\* What the switch of ValidateAndPreviewInputValue makes of the current inputs.
EncodedNow == Encode(Stripped, combo_id, Radix(base_checked, base_enabled))

\* Hex digits in pairs with one space between two pairs.
RECURSIVE Grouped(_)
Grouped(hex) ==
  IF Len(hex) <= 2 THEN hex
  ELSE SubSeq(hex, 1, 2) \o <<" ">> \o Grouped(SubSeq(hex, 3, Len(hex)))

\* The bytes that the hex digit pairs of s denote, first pair first.
RECURSIVE PairsInOrder(_)
PairsInOrder(s) ==
  IF Len(s) < 2 THEN <<>>
  ELSE << DigitVal(s[1]) * 16 + DigitVal(s[2]) >> \o PairsInOrder(SubSeq(s, 3, Len(s)))

Ellipsis == <<".", ".", ".">>

\* C13: an accepted value that encodes to more than 8 bytes (ASCII and hex
\* string only) is previewed as its first 16 hex characters in space-separated
\* pairs followed by "...", while GetInputData returns all the bytes of the
\* input text; a value of 8 bytes or fewer, every double included, is
\* previewed in full without "...".
C13_PreviewTruncation ==
  Accepted =>
    IF Len(EncodedNow.hex) > 16
    THEN /\ combo_id \in {"ASCII", "HEXSTR"}
         /\ data_preview = Grouped(SubSeq(EncodedNow.hex, 1, 16)) \o Ellipsis
         /\ Len(GetInputData) > 8
         /\ combo_id = "ASCII" => GetInputData = Utf8Bytes(data_edit)
         /\ combo_id = "HEXSTR" =>
              /\ GetInputData = PairsInOrder(Stripped)
              /\ 2 * Len(GetInputData) = Len(Stripped)
    ELSE /\ data_preview = Grouped(EncodedNow.hex)
         /\ \A i \in 1..Len(data_preview) : data_preview[i] # "."
         /\ combo_id = "DOUBLE" => Len(EncodedNow.hex) = 16

\* A hex string of nine bytes is accepted: the preview ends in "..." and
\* GetInputData has the nine bytes.
C13_Witness ==
  /\ Accepted
  /\ combo_id = "HEXSTR"
  /\ Len(EncodedNow.hex) = 18
  /\ Len(GetInputData) = 9
  /\ SubSeq(data_preview, Len(data_preview) - 2, Len(data_preview)) = Ellipsis


----------------------------------------------------------------------------
(* Writing: claim C15, checked under SpecSet.                              *)

\* (address + i) mod 2^32 for 0 <= i < 2^16.
ModAdd(address, i) ==
  IF WLe(WAdd(address, WOf(i)), U32Max)
  THEN WAdd(address, WOf(i))
  ELSE WSub(WAdd(address, WOf(i)), [hi |-> W, lo |-> 0])

\* Set Value has all it needs to write.
CanSet ==
  /\ core_running
  /\ GetTargetAddress.is_good_address
  /\ GetTargetAddress.is_good_offset
  /\ GetInputData # <<>>

\* C15: OnSetValue writes only when the core is running, both address flags
\* are good and the bytes b[0..n-1] are not empty; it then writes b[i] to
\* (T + i) mod 2^32 for i = 0..n-1 in increasing order and nothing else, and
\* in every other case it writes no byte.
C15_SetValueWrites ==
  [][OnSetValue =>
       IF CanSet
       THEN /\ Len(writes') = Len(GetInputData)
            /\ \A i \in 1..Len(GetInputData) :
                  /\ writes'[i].address = ModAdd(TargetNow, i - 1)
                  /\ writes'[i].value = GetInputData[i]
            /\ \A a \in DOMAIN memory :
                  IF \E i \in 1..Len(GetInputData) : ModAdd(TargetNow, i - 1) = a
                  THEN \E i \in 1..Len(GetInputData) :
                         /\ ModAdd(TargetNow, i - 1) = a
                         /\ memory'[a] = GetInputData[i]
                  ELSE memory'[a] = memory[a]
       ELSE /\ writes' = <<>>
            /\ memory' = memory]_vars

\* Three bytes were written from address 2^32 - 1 on: the second and the third
\* went to addresses 0 and 1.
C15_Witness ==
  /\ Len(writes) = 3
  /\ writes[1].address = U32Max
  /\ writes[2].address = WZero
  /\ writes[3].address = WOf(1)
  /\ memory[U32Max] = 1
  /\ memory[WZero] = 1
  /\ memory[WOf(1)] = 0
  /\ message_box = ""


----------------------------------------------------------------------------
(* Hex strings: claim C14, checked under SpecHex.                          *)

HexChars ==
  {"0", "1", "2", "3", "4", "5", "6", "7", "8", "9",
   "a", "b", "c", "d", "e", "f", "A", "B", "C", "D", "E", "F"}

\* The text without its spaces is a sequence of hex digit pairs.
PairsNow ==
  /\ Len(Stripped) % 2 = 0
  /\ \A i \in 1..Len(Stripped) : Stripped[i] \in HexChars

\* The bytes the text stands for: none when it is no sequence of pairs.
HexBytesNow == IF PairsNow THEN PairsInOrder(Stripped) ELSE <<>>

HexValidation ==
  (combo_id = "HEXSTR" /\ data_edit # <<>>) =>
    /\ ~data_bad <=> PairsNow
    /\ GetInputData = HexBytesNow

HexZeroBytesRefused ==
  (combo_id = "HEXSTR" /\ HexBytesNow = <<>>
     /\ GetTargetAddress.is_good_address /\ GetTargetAddress.is_good_offset) =>
    /\ FindStep => (result_label' = "Bad Value Given" /\ ~search_call'.made)
    /\ (OnSetValue /\ core_running) =>
         (message_box' = "Bad value provided." /\ writes' = <<>> /\ memory' = memory)

\* C14: a hex string is accepted iff, spaces removed, it is a sequence of hex
\* digit pairs in either case, and its bytes are then the decoded pairs in
\* order; a text with another character or an odd number of digits is
\* rejected; a text that gives no bytes is reported as a bad value by Find
\* and by Set Value and is not searched for or written.
C14_HexString == [](HexValidation) /\ [][HexZeroBytesRefused]_vars

\* Set Value has just refused a text of one space, which is not marked bad,
\* and the label shows the refusal of a find.
C14_Witness ==
  /\ combo_id = "HEXSTR"
  /\ data_edit = <<" ">>
  /\ ~data_bad
  /\ data_preview = <<>>
  /\ message_box = "Bad value provided."
  /\ result_label = "Bad Value Given"

----------------------------------------------------------------------------
(* Address resolution: claim C17, checked under SpecAddr.                  *)

\* The address text is not empty and does not parse.
AddressFails == search_address # <<>> /\ ~ParsedAddr.ok

\* C17: when the address text is non-empty and fails to parse, the range
\* checks of the offset run against address 0: is_good_offset is true iff the
\* offset text is empty or parses to a value >= 0, and false for every offset
\* text that parses to a negative value; whenever either flag is false the
\* address returned is 0.
C17_OffsetFlagWithBadAddress ==
  /\ AddressFails =>
       /\ ~GetTargetAddress.is_good_address
       /\ GetTargetAddress.is_good_offset <=>
            (search_offset = <<>> \/ (ParsedOffset.ok /\ WLe(WZero, ParsedOffset.val)))
       /\ (ParsedOffset.ok /\ WLt(ParsedOffset.val, WZero)) =>
            ~GetTargetAddress.is_good_offset
  /\ (~GetTargetAddress.is_good_address \/ ~GetTargetAddress.is_good_offset) =>
       GetTargetAddress.address = WZero

\* The address text is G and the offset text -1: both flags are false, both
\* boxes are marked, while -1 alone is a well-formed offset.
C17_Witness ==
  /\ search_address = <<"G">>
  /\ search_offset = <<"-", "1">>
  /\ ParsedOffset.ok
  /\ ~GetTargetAddress.is_good_address
  /\ ~GetTargetAddress.is_good_offset
  /\ addr_bad
  /\ offset_bad

====
